---- MODULE Spec2Model ----
(***************************************************************************)
(* A model of server/resources_cache.py (ResourceCache): the snapshot      *)
(* cache with its background refresh loop, its start/stop lifecycle and    *)
(* its token tracking.                                                     *)
(*                                                                         *)
(* Granularity.  The cache runs on one asyncio event loop, so a coroutine  *)
(* runs without interruption from one suspension point to the next.  The   *)
(* suspension points of the code are: asyncio.sleep(0.2) (line 102), each  *)
(* asyncio.to_thread page fetch (line 137), the inter-cycle wait_for (line *)
(* 117) and the wait_for on the loop task in stop() (line 65).  `async     *)
(* with` on a lock that is free does not suspend, and neither lock of the  *)
(* cache is ever held across a suspension point.  One action of the model  *)
(* is one such uninterrupted run of one coroutine.                         *)
(***************************************************************************)
EXTENDS Integers, Sequences, FiniteSets, TLC

----------------------------------------------------------------------------
(* Bounds of the model *)

\* number of loop tasks start() may create
MaxTasks == 2
\* number of start() calls
MaxStarts == 2
\* number of refresh_once runs that get past the factory check
MaxCycles == 3
\* the clock runs from 1 to MaxTime
MaxTime == 2
\* upstream holds at most MaxRecs records of a kind
MaxRecs == 2
\* length of the lists handed to apply_sort()
MaxItems == 3
\* number of slices upstream holds
MaxSlices == 4
\* number of note_token() calls
MaxNotes == 2

----------------------------------------------------------------------------
(* Program constants (milliseconds) *)

\* asyncio.sleep(0.2)
PollMs == 200
\* wait_for(self._refresh_task, timeout=5)
GraceMs == 5000
\* self._interval = max(30, ...): the shortest inter-cycle wait
MinIntervalMs == 30000
\* interval_seconds: int = 300
DefaultInterval == 300
\* max_fetch: int = 5000
DefaultMaxFetch == 5000
\* max(30, int(interval_seconds))
IntervalFloor == 30
\* max(100, int(max_fetch))
MaxFetchFloor == 100
\* kwargs.pop("limit", 500)
DefaultLimit == 500

----------------------------------------------------------------------------
(* Names *)

None == "None"
TaskNames == <<"T1", "T2", "T3", "T4">>
TaskIds == {TaskNames[i] : i \in 1..MaxTasks}
\* callers of refresh_once() other than the loop
Direct == {"d1"}
Callers == TaskIds \cup Direct
StopCallers == {"s1", "s2"}
Readers == {"r1"}
Tokens == {"tokA", "tokB"}
\* what note_token may be given: a token, None or the empty string
TokenInputs == Tokens \cup {None, ""}
KindNames == <<"sites", "hosts", "facility_ports", "links">>
NKinds == Len(KindNames)

Min(a, b) == IF a < b THEN a ELSE b
Max(a, b) == IF a > b THEN a ELSE b

VARIABLES
    interval,         \* self._interval
    max_fetch,        \* self._max_fetch
    args,             \* the arguments ResourceCache(...) was constructed with
    CACHE,            \* tools/topology.py CACHE: is it set to the cache?
    max_fetch_for_sort, \* config.max_fetch_for_sort
    slices,           \* the states of the slices upstream holds, in its order
    fm_factory,       \* self._fm_factory is set (wired)
    snap,             \* self._snap (the value of the object it refers to)
    rw_lock,          \* self._rw_lock: "free" or its holder
    token_lock,       \* self._token_lock: "free" or its holder
    last_good_token,  \* self._last_good_token
    refresh_task,     \* self._refresh_task: None or a task
    stop_event,       \* self._stop_event
    task,             \* the loop tasks created by start()
    rc,               \* the frame of each refresh_once() in progress
    stopc,            \* the callers of stop()
    held,             \* what snapshot() returned to each reader
    dres,             \* how each direct refresh_once() call ended
    now,              \* time.time()
    ncycles,          \* refresh_once runs begun (their identities)
    ntasks,           \* tasks created
    nstarts,          \* start() calls made
    upstream,         \* how many records of each kind upstream holds
    noted,            \* the note_token() calls made: their number, the last argument
    hasd,             \* what has_data() returned to each reader
    qres,             \* the query tool call of each reader and how it ended
    heap,             \* the CacheSnapshot objects the cache or a reader refers to
    snap_obj,         \* the object self._snap refers to
    held_obj          \* the object each reader refers to

\* the constructor's arguments and what it made of them, and what the
\* query tools are configured with
conf == <<interval, max_fetch, args, CACHE, max_fetch_for_sort, slices>>
\* what the calls of note_token(), has_data() and the query tools left
results == <<noted, hasd, qres>>
\* the snapshot objects and the references to them
objs == <<heap, snap_obj, held_obj>>

vars == <<interval, max_fetch, args, CACHE, max_fetch_for_sort, slices, fm_factory, snap, rw_lock, token_lock,
          last_good_token, refresh_task, stop_event, task, rc, stopc, held, dres,
          now, ncycles, ntasks, nstarts, upstream, noted, hasd, qres, heap,
          snap_obj, held_obj>>

----------------------------------------------------------------------------
(* CacheSnapshot *)

\* A list object: the refresh run that built it (0: the dataclass default
\* of the initial snapshot) and its records.
Coll(c, rs) == [cyc |-> c, recs |-> rs]

CacheSnapshot(t, s, h, f, l) ==
    [ts |-> t, sites |-> s, hosts |-> h, facility_ports |-> f, links |-> l]

\* CacheSnapshot(ts=0.0)
InitialSnapshot ==
    CacheSnapshot(0, Coll(0, <<>>), Coll(0, <<>>), Coll(0, <<>>), Coll(0, <<>>))

----------------------------------------------------------------------------
(* refresh_once *)

\* No refresh_once() in progress for this caller.  (reqs lists the offsets
\* requested so far for the kind being paged, sent the kind and the
\* id_token of every page request of the run, began the time at which the
\* run began.)
IdleCtx ==
    [pc |-> "idle", kind |-> 1, offset |-> 0, token |-> None,
     out |-> <<>>, got |-> <<>>, cyc |-> 0, reqs |-> <<>>, sent |-> <<>>,
     began |-> 0]

\* A faulty variant of AsyncWith: the lock is still held when the block is
\* left.
AsyncWith_Held(lock) == "held"

\* `async with lock:` around a block that does not await (lines 77-78,
\* 81-82 and 164-165): the lock is free again when the block is left.
AsyncWith(lock) == "free"

\* _get_refresh_token
GetRefreshToken == last_good_token

\* A faulty variant of RequestToken: the stored token is read again for
\* every page request.
RequestToken_Reread(ctx) == last_good_token

\* Line 139, id_token=token: the local variable assigned at line 129
RequestToken(ctx) == ctx.token

\* a page request of kind k goes out
Request(ctx, k) == Append(ctx.sent, [kind |-> k, id_token |-> RequestToken(ctx)])

\* Lines 128-137: the frame once the factory has returned, the token is
\* read and the first page of sites is requested.
BeginCtx ==
    LET ctx == [pc |-> "fetch", kind |-> 1, offset |-> 0, token |-> GetRefreshToken,
                out |-> <<>>, got |-> <<>>, cyc |-> ncycles + 1, reqs |-> <<0>>,
                sent |-> <<>>, began |-> now]
    IN  [ctx EXCEPT !.sent = Request(ctx, 1)]

\* limit = min(self._max_fetch, int(kwargs.pop("limit", 500))): no caller
\* passes a limit
Limit == Min(max_fetch, DefaultLimit)

\* records 1..n, in upstream's order
Dataset(n) == [i \in 1..n |-> i]

\* fetch_fn(id_token=token, limit=limit, offset=offset, filters=None): the
\* page upstream answers with, its records of kind k from `offset` on, at
\* most `limit` of them.
Page(k, offset) ==
    LET n == Min(Limit, upstream[k] - offset)
    IN  IF n > 0 THEN [i \in 1..n |-> offset + i] ELSE <<>>

\* A faulty variant of LastPage: only an empty page ends the paging.
LastPage_EmptyOnly(page) == page = <<>>

\* Lines 144-149: does the paging loop of _page stop after this page?
LastPage(page) == page = <<>> \/ Len(page) < Limit

\* A faulty variant of NewSnapshot: the snapshot is built without its timestamp.
NewSnapshot_Unstamped(ctx, links) ==
    CacheSnapshot(0, ctx.got[1], ctx.got[2], ctx.got[3], links)

\* A faulty variant of NewSnapshot: the timestamp is the time at which the
\* run began, before its fetches.
NewSnapshot_StampedAtBegin(ctx, links) ==
    CacheSnapshot(ctx.began, ctx.got[1], ctx.got[2], ctx.got[3], links)

\* Lines 157-163: the snapshot built from the three finished collections
\* and the links just paged.
NewSnapshot(ctx, links) ==
    CacheSnapshot(now, ctx.got[1], ctx.got[2], ctx.got[3], links)

----------------------------------------------------------------------------
(* The loop task and the callers *)

\* A task that start() has not created yet.  st is where the task is
\* suspended; phase is the call site of the refresh_once() it is in (line
\* 106 or 112); cancel is a pending Task.cancel(); att counts the
\* refresh_once() calls it made with a factory wired; res is the outcome of
\* the latest one; slept tells that it has polled for the factory.
NoTask ==
    [st |-> "unborn", phase |-> "init", cancel |-> FALSE, att |-> 0,
     res |-> "none", slept |-> FALSE]

\* asyncio.create_task(self._periodic_refresh_loop()): scheduled, not yet run
NewTask == [NoTask EXCEPT !.st = "created"]

Terminal(t) == task[t].st \in {"done", "cancelled"}
Alive(t) == task[t].st \notin {"unborn", "done", "cancelled"}

\* A stop() caller: where it is, the task it awaits, where that task was
\* when stop() was called, and how the call ended.
IdleStop == [pc |-> "idle", waits |-> None, at |-> "none", path |-> "none", err |-> "none"]

\* The upstream dataset of the lifecycle specifications: some sites, one
\* host, nothing else.
LifeUpstream == [k \in 1..NKinds |-> IF k = 1 THEN MaxRecs ELSE IF k = 2 THEN 1 ELSE 0]

\* A faulty variant of ClampMaxFetch: the argument is taken as it is.
ClampMaxFetch_Unclamped(m) == m

\* Line 34: max(30, int(interval_seconds)).  The arguments are integers, and
\* int() of an integer is that integer.
ClampInterval(i) == Max(IntervalFloor, i)

\* Line 35: max(100, int(max_fetch))
ClampMaxFetch(m) == Max(MaxFetchFloor, m)

\* upstream holds n records of kind k0 and nothing else
PagingUpstream(k0, n) == [k \in 1..NKinds |-> IF k = k0 THEN n ELSE 0]

\* config.max_fetch_for_sort: MAX_FETCH_FOR_SORT, "5000"
MaxFetchForSort == 5000

\* ResourceCache(interval_seconds=i, max_fetch=m), before any call, with
\* upstream holding up and the slices sl, topology.CACHE set (cs) or not,
\* and config.max_fetch_for_sort = mfs
InitAll(i, m, up, cs, mfs, sl) ==
    /\ slices = sl
    /\ args = [interval_seconds |-> i, max_fetch |-> m]
    /\ CACHE = cs
    /\ max_fetch_for_sort = mfs
    /\ interval = ClampInterval(i)
    /\ max_fetch = ClampMaxFetch(m)
    /\ fm_factory = FALSE
    /\ snap = InitialSnapshot
    /\ rw_lock = "free"
    /\ token_lock = "free"
    /\ last_good_token = None
    /\ refresh_task = None
    /\ stop_event = FALSE
    /\ task = [t \in TaskIds |-> NoTask]
    /\ rc = [c \in Callers |-> IdleCtx]
    /\ stopc = [s \in StopCallers |-> IdleStop]
    /\ held = [r \in Readers |-> {}]
    /\ dres = [d \in Direct |-> "none"]
    /\ now = 1
    /\ ncycles = 0
    /\ ntasks = 0
    /\ nstarts = 0
    /\ upstream = up
    /\ noted = [n |-> 0, tok |-> None]
    /\ hasd = [r \in Readers |-> {}]
    /\ qres = [r \in Readers |-> {}]
    /\ heap = (0 :> InitialSnapshot)
    /\ snap_obj = 0
    /\ held_obj = [r \in Readers |-> 0]

\* __main__.py lines 67-73: the cache is constructed and handed to the
\* query tools (set_cache) before anything is called
InitWith(i, m, up) == InitAll(i, m, up, TRUE, MaxFetchForSort, <<>>)

\* ResourceCache() with the default arguments
Init == InitWith(DefaultInterval, DefaultMaxFetch, LifeUpstream)

----------------------------------------------------------------------------
(* Lifecycle *)

\* wire_fm_factory
WireFmFactory ==
    /\ ~fm_factory
    /\ fm_factory' = TRUE
    /\ UNCHANGED <<conf, results, objs, upstream,
                   snap, rw_lock, token_lock, last_good_token, refresh_task,
                   stop_event, task, rc, stopc, held, dres, now, ncycles,
                   ntasks, nstarts>>

\* A faulty variant of StartSpawns: start() without its test of the handle.
StartSpawns_Always == TRUE

\* start(): `if self._refresh_task is None`
StartSpawns == refresh_task = None

Start ==
    /\ nstarts < MaxStarts
    /\ nstarts' = nstarts + 1
    /\ IF StartSpawns
       THEN /\ ntasks < MaxTasks
            /\ stop_event' = FALSE
            /\ refresh_task' = TaskNames[ntasks + 1]
            /\ task' = [task EXCEPT ![TaskNames[ntasks + 1]] = NewTask]
            /\ ntasks' = ntasks + 1
       ELSE UNCHANGED <<stop_event, refresh_task, task, ntasks>>
    /\ UNCHANGED <<conf, results, objs, upstream,
                   fm_factory, snap, rw_lock, token_lock, last_good_token,
                   rc, stopc, held, dres, now, ncycles>>

----------------------------------------------------------------------------
(* _periodic_refresh_loop *)

\* A faulty variant of Unwired: the loop tests a factory it read once, before the
\* wiring, and never sees the one wired later.
Unwired_Stale == TRUE

\* Line 99: `while not self._fm_factory`
Unwired == ~fm_factory

\* A faulty variant of PollExit: the poll loop without its test of the stop event.
PollExit_Never == FALSE

\* Line 100: `if self._stop_event.is_set(): return`
PollExit == stop_event

\* Line 110: `while not self._stop_event.is_set()` is left
LoopLeaves == stop_event

\* A faulty variant of Interrupted: a plain asyncio.sleep(self._interval), which the
\* stop event does not end.
Interrupted_PlainSleep == FALSE

\* Line 117: the inter-cycle wait is over because the stop event is set.
Interrupted == stop_event

\* Can task t stay where it is for longer than stop()'s grace period?  A
\* page fetch takes as long as upstream takes; the inter-cycle wait lasts
\* the interval unless the event ends it; the poll sleep is short.
BlockedBeyondGrace(t) ==
    \/ task[t].st \in {"fetch", "parked"}
    \/ task[t].st = "wait" /\ ~Interrupted /\ MinIntervalMs > GraceMs
    \/ task[t].st = "sleep" /\ PollMs > GraceMs

\* A faulty variant of AfterAttempt: no try/except around refresh_once(), so that an
\* exception ends the task.
AfterAttempt_Dies(phase, res) ==
    IF res = "fail" THEN "done" ELSE IF phase = "init" THEN "at110" ELSE "wait"

\* Lines 105-108 and 111-115: where the loop goes when refresh_once() has
\* returned or raised (res): both call sites catch Exception; after the
\* initial attempt comes the `while` test, after a periodic one the wait.
AfterAttempt(phase, res) == IF phase = "init" THEN "at110" ELSE "wait"

\* A faulty variant of NoFactory: refresh_once() without its test of the factory.
NoFactory_Unchecked == FALSE

\* Line 126: `if not self._fm_factory: return`
NoFactory == ~fm_factory

\* The loop calls refresh_once() (phase: its call site).  With the factory
\* wired, the call runs to its first page request, or raises in the
\* factory.  Beyond MaxCycles runs the model follows the task no further:
\* it is left in the first fetch of a run that is never answered.
LoopRefresh(t, phase) ==
    IF NoFactory
    THEN /\ task' = [task EXCEPT ![t] =
                       [@ EXCEPT !.st = AfterAttempt(phase, "noop"), !.phase = phase,
                                 !.res = "noop"]]
         /\ UNCHANGED <<rc, ncycles, token_lock>>
    ELSE IF ncycles >= MaxCycles
    THEN /\ task' = [task EXCEPT ![t] = [@ EXCEPT !.st = "parked", !.phase = phase]]
         /\ UNCHANGED <<rc, ncycles, token_lock>>
    ELSE /\ ncycles' = ncycles + 1
         /\ \/ \* fm = self._fm_factory() raises
               /\ task' = [task EXCEPT ![t] =
                             [@ EXCEPT !.st = AfterAttempt(phase, "fail"), !.phase = phase,
                                       !.res = "fail", !.att = @ + 1]]
               /\ rc' = rc
               /\ token_lock' = token_lock
            \/ /\ token_lock = "free"
               /\ token_lock' = AsyncWith(token_lock)
               /\ task' = [task EXCEPT ![t] =
                             [@ EXCEPT !.st = "fetch", !.phase = phase,
                                       !.res = "running", !.att = @ + 1]]
               /\ rc' = [rc EXCEPT ![t] = BeginCtx]

\* Lines 99-106: the task's first run, or its wake-up from sleep(0.2).
LoopRun(t) ==
    /\ task[t].st \in {"created", "sleep"}
    /\ ~task[t].cancel
    /\ IF Unwired
       THEN /\ task' = [task EXCEPT ![t] =
                          IF PollExit THEN [@ EXCEPT !.st = "done"]
                          ELSE [@ EXCEPT !.st = "sleep", !.slept = TRUE]]
            /\ UNCHANGED <<rc, ncycles, token_lock>>
       ELSE LoopRefresh(t, "init")
    /\ UNCHANGED <<conf, results, objs, upstream,
                   fm_factory, snap, rw_lock, last_good_token,
                   refresh_task, stop_event, stopc, held, dres, now, ntasks, nstarts>>

\* Lines 110-112: the `while` test, and the next refresh_once() if it holds.
LoopFrom110(t) ==
    IF LoopLeaves
    THEN /\ task' = [task EXCEPT ![t].st = "done"]
         /\ UNCHANGED <<rc, ncycles, token_lock>>
    ELSE LoopRefresh(t, "periodic")

\* The initial attempt is over (line 108): on to the `while` test.
LoopWhile(t) ==
    /\ task[t].st = "at110"
    /\ ~task[t].cancel
    /\ LoopFrom110(t)
    /\ UNCHANGED <<conf, results, objs, upstream,
                   fm_factory, snap, rw_lock, last_good_token,
                   refresh_task, stop_event, stopc, held, dres, now, ntasks, nstarts>>

\* Line 117 completes because the event is set; the `while` test follows.
LoopWakeSignal(t) ==
    /\ task[t].st = "wait"
    /\ ~task[t].cancel
    /\ Interrupted
    /\ LoopFrom110(t)
    /\ UNCHANGED <<conf, results, objs, upstream,
                   fm_factory, snap, rw_lock, last_good_token,
                   refresh_task, stop_event, stopc, held, dres, now, ntasks, nstarts>>

\* Line 117 times out after self._interval; the `while` test follows.
LoopWakeTimeout(t) ==
    /\ task[t].st = "wait"
    /\ ~task[t].cancel
    /\ ~Interrupted
    /\ LoopFrom110(t)
    /\ UNCHANGED <<conf, results, objs, upstream,
                   fm_factory, snap, rw_lock, last_good_token,
                   refresh_task, stop_event, stopc, held, dres, now, ntasks, nstarts>>

\* A cancelled task gets CancelledError at its suspension point.  Neither
\* refresh_once nor the loop's `except Exception` catches it: the task ends.
\* (The frame keeps the identity of the run that was cut short.)
TaskCancelled(t) ==
    /\ Alive(t)
    /\ task[t].cancel
    /\ task' = [task EXCEPT ![t].st = "cancelled"]
    /\ rc' = [rc EXCEPT ![t] = [IdleCtx EXCEPT !.cyc = rc[t].cyc]]
    /\ UNCHANGED <<conf, results, objs, upstream,
                   fm_factory, snap, rw_lock, token_lock, last_good_token,
                   refresh_task, stop_event, stopc, held, dres, now, ncycles,
                   ntasks, nstarts>>

----------------------------------------------------------------------------
(* refresh_once: the page fetches and the publication *)

\* refresh_once() has returned or raised to its caller c with outcome res.
Return(c, res) ==
    /\ rc' = [rc EXCEPT ![c] = IdleCtx]
    /\ ncycles' = ncycles
    /\ IF c \in Direct
       THEN /\ dres' = [dres EXCEPT ![c] = res]
            /\ task' = task
       ELSE /\ dres' = dres
            /\ task' = [task EXCEPT ![c] =
                          [@ EXCEPT !.st = AfterAttempt(task[c].phase, res), !.res = res]]

\* A faulty variant of FetchPending: a cancelled task is still resumed with the
\* answer of its fetch.
FetchPending_Cancelled(c) == rc[c].pc = "fetch"

\* The caller's coroutine is resumed with the fetch's answer (and not with
\* a CancelledError).
FetchPending(c) ==
    /\ rc[c].pc = "fetch"
    /\ c \in TaskIds => ~task[c].cancel

\* A faulty variant of SnapAfter: each collection is stored into the current snapshot
\* as soon as it is paged.
SnapAfter_InPlace(ctx, answer, coll) ==
    IF answer = "page"
    THEN [snap EXCEPT ![KindNames[ctx.kind]] = coll, !.ts = now]
    ELSE snap

\* A faulty variant of SnapAfter: the publication sits in a `finally`, so that a
\* refresh that raises publishes what it has paged so far.
SnapAfter_Finally(ctx, answer, coll) ==
    LET got(i) == IF i <= Len(ctx.got) THEN ctx.got[i] ELSE Coll(ctx.cyc, <<>>)
    IN  IF answer = "raise" \/ ctx.kind = NKinds
        THEN CacheSnapshot(now, got(1), got(2), got(3),
                           IF ctx.kind = NKinds THEN coll ELSE Coll(ctx.cyc, <<>>))
        ELSE snap

\* self._snap after the step in which a fetch of frame ctx was answered
\* ("page": the last page of a kind, coll the finished collection; "raise":
\* an exception).  Line 165 is the only assignment, reached once the four
\* kinds are paged.
SnapAfter(ctx, answer, coll) ==
    IF answer = "page" /\ ctx.kind = NKinds
    THEN NewSnapshot(ctx, coll)
    ELSE snap

\* A faulty variant of SnapObjAfter: refresh_once() stores what it paged into
\* the CacheSnapshot object that is already there.
SnapObjAfter_Reuse(ctx, answer) == snap_obj

\* The object self._snap refers to after that step: line 157 constructs a
\* new CacheSnapshot (named here by the run that constructs it), line 165
\* makes self._snap refer to it.
SnapObjAfter(ctx, answer) ==
    IF answer = "page" /\ ctx.kind = NKinds THEN ctx.cyc ELSE snap_obj

\* The objects still referred to, by self._snap (object o, now reading s) or
\* by a reader.
HeapAfter(o, s) ==
    [x \in {o} \cup {held_obj[r] : r \in {q \in Readers : held[q] # {}}} |->
        IF x = o THEN s ELSE heap[x]]

\* self._snap and the objects after a fetch of frame ctx was answered
Publish(ctx, answer, coll) ==
    /\ snap' = SnapAfter(ctx, answer, coll)
    /\ snap_obj' = SnapObjAfter(ctx, answer)
    /\ heap' = HeapAfter(snap_obj', snap')
    /\ held_obj' = held_obj

\* Lines 137-165: a page arrives.
FetchReturn(c) ==
    /\ FetchPending(c)
    /\ LET ctx  == rc[c]
           page == Page(ctx.kind, ctx.offset)
           out  == ctx.out \o page
           coll == Coll(ctx.cyc, out)
       IN  IF ~LastPage(page)
           THEN \* offset += limit, next page of the same kind
                /\ rc' = [rc EXCEPT ![c] =
                            [ctx EXCEPT !.out = out, !.offset = @ + Limit,
                                        !.reqs = Append(@, ctx.offset + Limit),
                                        !.sent = Request(ctx, ctx.kind)]]
                /\ UNCHANGED <<snap, objs, rw_lock, task, dres, ncycles>>
           ELSE IF ctx.kind < NKinds
           THEN \* return out; first page of the next kind
                /\ rc' = [rc EXCEPT ![c] =
                            [ctx EXCEPT !.kind = @ + 1, !.offset = 0, !.reqs = <<0>>,
                                        !.sent = Request(ctx, ctx.kind + 1),
                                        !.out = <<>>, !.got = Append(@, coll)]]
                /\ Publish(ctx, "page", coll)
                /\ UNCHANGED <<rw_lock, task, dres, ncycles>>
           ELSE \* lines 157-165: build the snapshot, swap it in, return
                /\ rw_lock = "free"
                /\ rw_lock' = AsyncWith(rw_lock)
                /\ Publish(ctx, "page", coll)
                /\ Return(c, "ok")
    /\ UNCHANGED <<conf, results, upstream,
                   fm_factory, token_lock, last_good_token, refresh_task,
                   stop_event, stopc, held, now, ntasks, nstarts>>

\* Line 137: the fetch raises; refresh_once has no handler.
FetchRaise(c) ==
    /\ FetchPending(c)
    /\ Publish(rc[c], "raise", Coll(rc[c].cyc, rc[c].out))
    /\ Return(c, "fail")
    /\ UNCHANGED <<conf, results, upstream,
                   fm_factory, rw_lock, token_lock, last_good_token,
                   refresh_task, stop_event, stopc, held, now, ntasks, nstarts>>

\* refresh_once() called from outside the loop: lines 126-137.
DirectRefresh(d) ==
    /\ rc[d].pc = "idle"
    /\ IF NoFactory
       THEN /\ dres' = [dres EXCEPT ![d] = "noop"]
            /\ UNCHANGED <<rc, ncycles, token_lock>>
       ELSE /\ ncycles < MaxCycles
            /\ ncycles' = ncycles + 1
            /\ \/ \* fm = self._fm_factory() raises
                  /\ dres' = [dres EXCEPT ![d] = "fail"]
                  /\ rc' = rc
                  /\ token_lock' = token_lock
               \/ /\ token_lock = "free"
                  /\ token_lock' = AsyncWith(token_lock)
                  /\ dres' = [dres EXCEPT ![d] = "running"]
                  /\ rc' = [rc EXCEPT ![d] = BeginCtx]
    /\ UNCHANGED <<conf, results, objs, upstream,
                   fm_factory, snap, rw_lock, last_good_token,
                   refresh_task, stop_event, task, stopc, held, now, ntasks, nstarts>>

----------------------------------------------------------------------------
(* stop *)

\* Line 62: `if self._refresh_task:`; line 63; line 65 up to its await.
StopCall(s) ==
    /\ stopc[s].pc = "idle"
    /\ IF refresh_task = None
       THEN /\ stopc' = [stopc EXCEPT ![s] = [@ EXCEPT !.pc = "returned", !.path = "noop"]]
            /\ UNCHANGED stop_event
       ELSE /\ stop_event' = TRUE
            /\ stopc' = [stopc EXCEPT ![s] =
                           [@ EXCEPT !.pc = "await", !.waits = refresh_task,
                                     !.at = task[refresh_task].st]]
    /\ UNCHANGED <<conf, results, objs, upstream,
                   fm_factory, snap, rw_lock, token_lock, last_good_token,
                   refresh_task, task, rc, held, dres, now, ncycles, ntasks, nstarts>>

\* Line 65: the awaited task has ended before the timeout.  wait_for hands
\* on its outcome: the loop's return, or the CancelledError of a task that
\* another caller cancelled, which line 66 does not catch.
StopResume(s) ==
    /\ stopc[s].pc = "await"
    /\ Terminal(stopc[s].waits)
    /\ IF task[stopc[s].waits].st = "done"
       THEN /\ refresh_task' = None
            /\ stopc' = [stopc EXCEPT ![s] = [@ EXCEPT !.pc = "returned", !.path = "coop"]]
       ELSE /\ refresh_task' = refresh_task
            /\ stopc' = [stopc EXCEPT ![s] = [@ EXCEPT !.pc = "raised", !.err = "CancelledError"]]
    /\ UNCHANGED <<conf, results, objs, upstream,
                   fm_factory, snap, rw_lock, token_lock, last_good_token,
                   stop_event, task, rc, held, dres, now, ncycles, ntasks, nstarts>>

\* Line 65: the timeout expires first.  wait_for cancels the task and waits
\* for it to end.
StopTimeout(s) ==
    /\ stopc[s].pc = "await"
    /\ BlockedBeyondGrace(stopc[s].waits)
    /\ task' = [task EXCEPT ![stopc[s].waits].cancel = TRUE]
    /\ stopc' = [stopc EXCEPT ![s].pc = "cancelling"]
    /\ UNCHANGED <<conf, results, objs, upstream,
                   fm_factory, snap, rw_lock, token_lock, last_good_token,
                   refresh_task, stop_event, rc, held, dres, now, ncycles,
                   ntasks, nstarts>>

\* Lines 66-68: wait_for raises TimeoutError once the task has ended.
\* self._refresh_task.cancel() is then a call on whatever the handle holds.
StopAfterTimeout(s) ==
    /\ stopc[s].pc = "cancelling"
    /\ Terminal(stopc[s].waits)
    /\ IF refresh_task = None
       THEN /\ stopc' = [stopc EXCEPT ![s] = [@ EXCEPT !.pc = "raised", !.err = "AttributeError"]]
            /\ UNCHANGED <<task, refresh_task>>
       ELSE /\ task' = [task EXCEPT ![refresh_task].cancel = @ \/ Alive(refresh_task)]
            /\ refresh_task' = None
            /\ stopc' = [stopc EXCEPT ![s] = [@ EXCEPT !.pc = "returned", !.path = "forced"]]
    /\ UNCHANGED <<conf, results, objs, upstream,
                   fm_factory, snap, rw_lock, token_lock, last_good_token,
                   stop_event, rc, held, dres, now, ncycles, ntasks, nstarts>>

----------------------------------------------------------------------------
(* Token tracking, readers, the environment *)

\* A faulty variant of Falsy: every argument counts as a token.
Falsy_Never(tok) == FALSE

\* Line 75: `not token`, for None and for the empty string
Falsy(tok) == tok \in {None, ""}

\* note_token (lines 73-78): `if not token: return`, else the token is
\* stored under the token lock.
NoteToken(tok) ==
    /\ noted.n < MaxNotes
    /\ noted' = [n |-> noted.n + 1, tok |-> tok]
    /\ IF Falsy(tok)
       THEN UNCHANGED <<last_good_token, token_lock>>
       ELSE /\ token_lock = "free"
            /\ token_lock' = AsyncWith(token_lock)
            /\ last_good_token' = tok
    /\ UNCHANGED <<conf, hasd, qres, objs, upstream,
                   fm_factory, snap, rw_lock, refresh_task,
                   stop_event, task, rc, stopc, held, dres, now, ncycles, ntasks,
                   nstarts>>

\* snapshot(): return self._snap.  The reader now refers to that object.
Snapshot(r) ==
    /\ held' = [held EXCEPT ![r] = {snap}]
    /\ held_obj' = [held_obj EXCEPT ![r] = snap_obj]
    /\ heap' = [x \in {snap_obj} \cup {held_obj'[q] : q \in {y \in Readers : held'[y] # {}}}
                  |-> heap[x]]
    /\ UNCHANGED <<conf, results, snap_obj, upstream,
                   fm_factory, snap, rw_lock, token_lock, last_good_token,
                   refresh_task, stop_event, task, rc, stopc, dres, now,
                   ncycles, ntasks, nstarts>>

\* bool(x) of a list
Truthy(list) == list # <<>>

\* A faulty variant of HasDataValue: only the sites are looked at.
HasDataValue_SitesOnly(s) == Truthy(s.sites.recs)

\* Lines 92-93: bool(s.sites or s.hosts or s.facility_ports or s.links)
HasDataValue(s) ==
    \/ Truthy(s.sites.recs)
    \/ Truthy(s.hosts.recs)
    \/ Truthy(s.facility_ports.recs)
    \/ Truthy(s.links.recs)

\* has_data(): the reader is handed the answer (kept here with the snapshot
\* that was current at the call).
HasData(r) ==
    /\ hasd' = [hasd EXCEPT ![r] = {[of |-> snap, val |-> HasDataValue(snap)]}]
    /\ UNCHANGED <<conf, noted, qres, objs, upstream,
                   fm_factory, snap, rw_lock, token_lock, last_good_token,
                   refresh_task, stop_event, task, rc, stopc, held, dres, now,
                   ncycles, ntasks, nstarts>>

----------------------------------------------------------------------------
(* The query tools (tools/topology.py) and their helpers *)

\* An optional argument is a set: {} is None, {x} is x.
FilterInputs == {None, "odd"}
SortSpecs == [field : {None, "v"}, direction : {None, "asc", "desc"}]
SortInputs == {{}} \cup {{so} : so \in SortSpecs}
LimitInputs == {{}, {0}, {1}, {200}}
OffsetInputs == {0, 1}
\* the token of the request's Authorization header: no header (None), an
\* empty token, a token
BearerInputs == {None, "", "tokA"}
TheOne(opt) == CHOOSE x \in opt : TRUE

\* set_cache(cache), lines 61-64
SetCache(cs) ==
    /\ CACHE # cs
    /\ CACHE' = cs
    /\ UNCHANGED <<interval, max_fetch, args, max_fetch_for_sort, slices,
                   results, objs, upstream,
                   fm_factory, snap, rw_lock, token_lock, last_good_token,
                   refresh_task, stop_event, task, rc, stopc, held, dres, now,
                   ncycles, ntasks, nstarts>>

\* r.get("v"), the value of field "v" of record r: records 3, 6, ... have
\* none (None), records 1 and 4 have the same
Get(r) == IF r % 3 = 0 THEN {} ELSE {(5 - r) % 3}

\* the filter lambda applied to a record
Keep(f, r) == f = None \/ r % 2 = 1

\* list(x): a new list of the same records
ListCopy(l) == l

\* items[a:b]
Slice(l, a, b) == SubSeq(l, a + 1, Min(b, Len(l)))

\* _apply_filters: `if not filters: return items`, else a new list
ApplyFilters(items, f) ==
    IF f = None THEN items ELSE SelectSeq(items, LAMBDA r : Keep(f, r))

\* Line 28, key=lambda r: (r.get(field) is None, r.get(field)): is the key
\* of a less than the key of b?  Tuples compare by their first differing
\* component, False < True; two keys (True, None) are equal.
KeyLess(a, b) ==
    LET na == Get(a) = {}
        nb == Get(b) = {}
    IN  IF na # nb THEN nb
        ELSE ~na /\ TheOne(Get(a)) < TheOne(Get(b))

\* does a come before b: sorted(..., reverse=reverse)
Before(a, b, reverse) == IF reverse THEN KeyLess(b, a) ELSE KeyLess(a, b)

\* sorted(items, key=..., reverse=reverse): a new list; stable (records
\* with equal keys keep the order they had, also with reverse=True)
RECURSIVE Sorted(_, _)
Sorted(items, reverse) ==
    IF items = <<>> THEN <<>>
    ELSE LET n    == Len(items)
             rest == Sorted(SubSeq(items, 1, n - 1), reverse)
             x    == items[n]
             m    == Cardinality({i \in 1..(n - 1) : ~Before(x, rest[i], reverse)})
         IN  SubSeq(rest, 1, m) \o <<x>> \o SubSeq(rest, m + 1, n - 1)

\* apply_sort (data_helpers.py lines 20-28): the argument is returned as it
\* is when there is no sort or no field; direction defaults to "asc"
ApplySort(items, sort) ==
    IF sort = {} THEN items
    ELSE IF TheOne(sort).field = None THEN items
    ELSE LET d == TheOne(sort).direction
             direction == IF d = None THEN "asc" ELSE d
             reverse == direction = "desc"
         IN  Sorted(items, reverse)

\* paginate (data_helpers.py): a slice, a new list
Paginate(items, limit, offset) ==
    LET start == Max(0, offset)
    IN  IF limit = {} THEN Slice(items, start, Len(items))
        ELSE Slice(items, start, start + Max(0, TheOne(limit)))

\* fm.query_sites(id_token, filters, limit, offset) of the upstream
\* library: of the records upstream holds of kind k, those that pass the
\* filter, `limit` of them at most from `offset` on (all of them when
\* call_threadsafe dropped limit=None)
FmQuery(k, f, limit, offset) ==
    LET all == SelectSeq(Dataset(upstream[k]), LAMBDA r : Keep(f, r))
    IN  IF limit = {} THEN Slice(all, offset, Len(all))
        ELSE Slice(all, offset, offset + Max(0, TheOne(limit)))

\* A faulty variant of QueryHit: the tool takes the cache path when the
\* snapshot holds data of any kind.
QueryHit_AnyKind(k) == CACHE /\ HasDataValue(snap)

\* Lines 111-113: `if CACHE:` and `list(snap.sites) if snap.sites else None`
QueryHit(k) == CACHE /\ Truthy(snap[KindNames[k]].recs)

\* A faulty variant of FmLimit: the caller's limit is requested also when
\* a sort is given.
FmLimit_CallerLimit(sort, limit) == limit

\* Line 118: fm_limit = config.max_fetch_for_sort if sort else limit
FmLimit(sort, limit) == IF sort # {} THEN {max_fetch_for_sort} ELSE limit

\* Lines 113 and 123-125: what the tool returns from the snapshot's list
CacheAnswer(k, f, sort, limit, offset) ==
    LET items == ApplyFilters(ListCopy(snap[KindNames[k]].recs), f)
    IN  Paginate(ApplySort(items, sort), limit, offset)

\* a query tool call: its arguments, what the tool saw of the cache
\* (cache_set, coll), the upstream calls it made, and how it ended (path,
\* out)
QueryCall(k, tok, f, sort, limit, offset, path, calls, out) ==
    [kind |-> k, tok |-> tok, f |-> f, sort |-> sort, limit |-> limit,
     offset |-> offset, cache_set |-> CACHE, coll |-> snap[KindNames[k]].recs,
     path |-> path, calls |-> calls, out |-> out]

\* the reader's query tool call is suspended in its live fetch (line 119)
QueryPending(r) == \E q \in qres[r] : q.path = "pending"

\* A query tool, lines 109-125 (query_sites; the other three differ in the
\* kind only).  On the cache path it runs to its end without suspending.
\* On the live path get_fabric_manager raises when the request has no
\* token (fabric_manager.py lines 81-83); otherwise the tool suspends in
\* call_threadsafe with one upstream call under way.
Query(r, k, tok, f, sort, limit, offset) ==
    /\ ~QueryPending(r)
    /\ qres' = [qres EXCEPT ![r] =
         IF QueryHit(k)
         THEN {QueryCall(k, tok, f, sort, limit, offset, "cache", <<>>,
                         CacheAnswer(k, f, sort, limit, offset))}
         ELSE IF Falsy(tok)
         THEN {QueryCall(k, tok, f, sort, limit, offset, "auth_error", <<>>, <<>>)}
         ELSE {QueryCall(k, tok, f, sort, limit, offset, "pending",
                         <<[kind |-> k, id_token |-> tok, filters |-> f,
                            limit |-> FmLimit(sort, limit), offset |-> 0]>>,
                         <<>>)}]
    /\ UNCHANGED <<conf, noted, hasd, objs, upstream,
                   fm_factory, snap, rw_lock, token_lock, last_good_token,
                   refresh_task, stop_event, task, rc, stopc, held, dres, now,
                   ncycles, ntasks, nstarts>>

\* Lines 119-125: upstream answers; the tool sorts and paginates what it got
QueryReturn(r) ==
    /\ \E q \in qres[r] :
         /\ q.path = "pending"
         /\ LET c     == q.calls[1]
                items == FmQuery(c.kind, c.filters, c.limit, c.offset)
            IN  qres' = [qres EXCEPT ![r] =
                  {[q EXCEPT !.path = "live",
                             !.out = Paginate(ApplySort(items, q.sort),
                                              q.limit, q.offset)]}]
    /\ UNCHANGED <<conf, noted, hasd, objs, upstream,
                   fm_factory, snap, rw_lock, token_lock, last_good_token,
                   refresh_task, stop_event, task, rc, stopc, held, dres, now,
                   ncycles, ntasks, nstarts>>

\* Line 119: the upstream call raises; nothing in the tool catches it
QueryRaise(r) ==
    /\ \E q \in qres[r] :
         /\ q.path = "pending"
         /\ qres' = [qres EXCEPT ![r] = {[q EXCEPT !.path = "upstream_error"]}]
    /\ UNCHANGED <<conf, noted, hasd, objs, upstream,
                   fm_factory, snap, rw_lock, token_lock, last_good_token,
                   refresh_task, stop_event, task, rc, stopc, held, dres, now,
                   ncycles, ntasks, nstarts>>

\* apply_sort(items, sort) called on its own: the reader is handed the
\* result (kept with the arguments)
SortCall(r, items, sort) ==
    /\ ~QueryPending(r)
    /\ qres' = [qres EXCEPT ![r] =
                  {[path |-> "sort", items |-> items, sort |-> sort,
                    out |-> ApplySort(items, sort)]}]
    /\ UNCHANGED <<conf, noted, hasd, objs, upstream,
                   fm_factory, snap, rw_lock, token_lock, last_good_token,
                   refresh_task, stop_event, task, rc, stopc, held, dres, now,
                   ncycles, ntasks, nstarts>>

\* the four tools
QuerySites(r, tok, f, sort, limit, offset) == Query(r, 1, tok, f, sort, limit, offset)
QueryHosts(r, tok, f, sort, limit, offset) == Query(r, 2, tok, f, sort, limit, offset)
QueryFacilityPorts(r, tok, f, sort, limit, offset) == Query(r, 3, tok, f, sort, limit, offset)
QueryLinks(r, tok, f, sort, limit, offset) == Query(r, 4, tok, f, sort, limit, offset)

----------------------------------------------------------------------------
(* The tool query_slices (tools/slices/listing.py) *)

SliceStates == {"StableOK", "Dead"}
\* exclude_slice_state: None, or a list of states
ExcludeInputs == {{}, {"Dead"}}
\* slice_id: None, or an id
SliceIdInputs == {{}, {1}}
SliceLimits == {1, 2}

\* slice i has slice_id i; its name (slices 1 and 3 have the same)
SliceName(i) == IF i % 2 = 1 THEN "a" ELSE "b"

\* fm.list_slices(limit, offset): the slices upstream holds from `offset`
\* on, `limit` of them at most
SlicePage(limit, offset) ==
    Slice([i \in 1..Len(slices) |-> i], offset, offset + Max(0, limit))

\* Lines 78-80: the page without the slices in an excluded state; an
\* empty or missing exclude_slice_state excludes nothing
Excluded(page, exclude) ==
    IF exclude = {} THEN page
    ELSE SelectSeq(page, LAMBDA i : slices[i] \notin exclude)

\* Line 82, on the page as filtered at line 80:
\* `if not fetch_all or len(page) < limit: break`
LastSlicePage(page, limit, fetch_all) ==
    ~fetch_all \/ Len(page) < limit

\* Lines 87-92: the dict built from the results, a set of <<key, slice>>
\* pairs.  The key is the slice's name, or name-slice_id[:8] when the name
\* is taken.
RECURSIVE SliceDict(_)
SliceDict(res) ==
    IF res = <<>> THEN {}
    ELSE LET n    == Len(res)
             d    == SliceDict(SubSeq(res, 1, n - 1))
             i    == res[n]
             name == <<SliceName(i)>>
             key  == IF \E p \in d : p[1] = name THEN <<SliceName(i), i>> ELSE name
         IN  {p \in d : p[1] # key} \cup {<<key, i>>}

\* query_slices is called, lines 44-63: get_fabric_manager raises without
\* a token; with a slice_id the tool asks for that slice, otherwise for
\* the first page.
SlicesCall(r, tok, slice_id, exclude, offset, limit, fetch_all) ==
    /\ ~QueryPending(r)
    /\ LET q == [path |-> "pending", tool |-> "query_slices", tok |-> tok,
                 slice_id |-> slice_id, exclude |-> exclude, offset |-> offset,
                 limit |-> limit, fetch_all |-> fetch_all,
                 results |-> <<>>, cur_offset |-> offset, calls |-> <<>>,
                 out |-> {}]
       IN  qres' = [qres EXCEPT ![r] =
             IF Falsy(tok) THEN {[q EXCEPT !.path = "auth_error"]}
             ELSE IF slice_id # {}
             THEN {[q EXCEPT !.calls = <<[fn |-> "get_slice", slice_id |-> slice_id]>>]}
             ELSE {[q EXCEPT !.calls = <<[fn |-> "list_slices", limit |-> limit,
                                          offset |-> offset]>>]}]
    /\ UNCHANGED <<conf, noted, hasd, objs, upstream,
                   fm_factory, snap, rw_lock, token_lock, last_good_token,
                   refresh_task, stop_event, task, rc, stopc, held, dres, now,
                   ncycles, ntasks, nstarts>>

\* Lines 48-57 and 63-93: upstream answers.  A slice looked up by its id
\* is returned under its name; a page is filtered and added to the
\* results, and either the next page is requested or the dict is built
\* and returned.
SlicesReturn(r) ==
    /\ \E q \in qres[r] :
         /\ q.path = "pending"
         /\ "tool" \in DOMAIN q
         /\ IF q.slice_id # {}
            THEN /\ TheOne(q.slice_id) \in 1..Len(slices)
                 /\ qres' = [qres EXCEPT ![r] =
                      {[q EXCEPT !.path = "single",
                                 !.out = {<<<<SliceName(TheOne(q.slice_id))>>,
                                            TheOne(q.slice_id)>>}]}]
            ELSE LET raw  == SlicePage(q.limit, q.cur_offset)
                     page == Excluded(raw, q.exclude)
                     res  == q.results \o page
                 IN  qres' = [qres EXCEPT ![r] =
                       IF raw = <<>>
                       THEN {[q EXCEPT !.path = "slices", !.out = SliceDict(q.results)]}
                       ELSE IF LastSlicePage(page, q.limit, q.fetch_all)
                       THEN {[q EXCEPT !.path = "slices", !.results = res,
                                       !.out = SliceDict(res)]}
                       ELSE {[q EXCEPT !.results = res,
                                       !.cur_offset = @ + q.limit,
                                       !.calls = Append(@,
                                          [fn |-> "list_slices", limit |-> q.limit,
                                           offset |-> q.cur_offset + q.limit])]}]
    /\ UNCHANGED <<conf, noted, hasd, objs, upstream,
                   fm_factory, snap, rw_lock, token_lock, last_good_token,
                   refresh_task, stop_event, task, rc, stopc, held, dres, now,
                   ncycles, ntasks, nstarts>>

\* Lines 48 and 63: the upstream call raises; nothing in the tool catches it
SlicesRaise(r) ==
    /\ \E q \in qres[r] :
         /\ q.path = "pending"
         /\ "tool" \in DOMAIN q
         /\ qres' = [qres EXCEPT ![r] = {[q EXCEPT !.path = "upstream_error"]}]
    /\ UNCHANGED <<conf, noted, hasd, objs, upstream,
                   fm_factory, snap, rw_lock, token_lock, last_good_token,
                   refresh_task, stop_event, task, rc, stopc, held, dres, now,
                   ncycles, ntasks, nstarts>>

----------------------------------------------------------------------------
(* The environment *)

\* the datasets upstream may hold
Datasets == {LifeUpstream, PagingUpstream(1, 0), PagingUpstream(NKinds, 1)}

\* upstream's data change
UpstreamChange ==
    /\ \E up \in Datasets \ {upstream} : upstream' = up
    /\ UNCHANGED <<conf, results, objs,
                   fm_factory, snap, rw_lock, token_lock, last_good_token,
                   refresh_task, stop_event, task, rc, stopc, held, dres, now,
                   ncycles, ntasks, nstarts>>

\* time passes
Tick ==
    /\ now < MaxTime
    /\ now' = now + 1
    /\ UNCHANGED <<conf, results, objs, upstream,
                   fm_factory, snap, rw_lock, token_lock, last_good_token,
                   refresh_task, stop_event, task, rc, stopc, held, dres,
                   ncycles, ntasks, nstarts>>

----------------------------------------------------------------------------
(* Specifications *)

\* start(), stop() and the loop task
NextLife ==
    \/ WireFmFactory
    \/ Start
    \/ \E t \in TaskIds : LoopRun(t)
    \/ \E t \in TaskIds : LoopWhile(t)
    \/ \E t \in TaskIds : LoopWakeSignal(t)
    \/ \E t \in TaskIds : LoopWakeTimeout(t)
    \/ \E t \in TaskIds : TaskCancelled(t)
    \/ \E c \in TaskIds : FetchReturn(c)
    \/ \E c \in TaskIds : FetchRaise(c)
    \/ \E s \in StopCallers : StopCall(s)
    \/ \E s \in StopCallers : StopResume(s)
    \/ \E s \in StopCallers : StopTimeout(s)
    \/ \E s \in StopCallers : StopAfterTimeout(s)

SpecLife == Init /\ [][NextLife]_vars

\* the loop task, refresh_once() called from outside the loop at the same
\* time, a reader, and one caller of stop()
OneStopper == {"s1"}

Next ==
    \/ WireFmFactory
    \/ Start
    \/ \E t \in TaskIds : LoopRun(t)
    \/ \E t \in TaskIds : LoopWhile(t)
    \/ \E t \in TaskIds : LoopWakeSignal(t)
    \/ \E t \in TaskIds : LoopWakeTimeout(t)
    \/ \E t \in TaskIds : TaskCancelled(t)
    \/ \E c \in Callers : FetchReturn(c)
    \/ \E c \in Callers : FetchRaise(c)
    \/ \E d \in Direct : DirectRefresh(d)
    \/ \E s \in OneStopper : StopCall(s)
    \/ \E s \in OneStopper : StopResume(s)
    \/ \E s \in OneStopper : StopTimeout(s)
    \/ \E s \in OneStopper : StopAfterTimeout(s)
    \/ \E r \in Readers : Snapshot(r)

Spec == Init /\ [][Next]_vars

----------------------------------------------------------------------------
(* Claims *)

\* The four lists of a snapshot were built by one refresh_once run, or are
\* the four empty lists of the initial snapshot.
OneCycle(s) ==
    /\ s.hosts.cyc = s.sites.cyc
    /\ s.facility_ports.cyc = s.sites.cyc
    /\ s.links.cyc = s.sites.cyc
    /\ s.sites.cyc = 0 => s = InitialSnapshot

\* C1: atomic publish.  Whatever the interleaving of readers with the
\* refreshes of the loop and of direct callers, the current snapshot and
\* every snapshot a reader got from snapshot() have their four collections
\* from the same refresh cycle, or are the initial empty snapshot.
C1_AtomicPublish ==
    /\ OneCycle(snap)
    /\ \A r \in Readers : \A s \in held[r] : OneCycle(s)

\* C1 witness: a reader holds the snapshot of one cycle while a later
\* cycle has been published and a still later one is part-way through
\* its kinds.
C1_Witness ==
    \E r \in Readers : \E s \in held[r] : \E c \in Callers :
        /\ s.sites.cyc >= 1
        /\ snap.sites.cyc > s.sites.cyc
        /\ rc[c].pc = "fetch"
        /\ rc[c].kind >= 3

\* A refresh_once() call of caller c ends raising in this step: in the
\* factory (the call begins and is not left in a fetch) or in a fetch.
Fails(c) ==
    IF c \in Direct
    THEN dres'[c] = "fail" /\ (dres[c] = "running" \/ ncycles' > ncycles)
    ELSE task'[c].res = "fail" /\ (task[c].res = "running" \/ task'[c].att > task[c].att)

\* C2: failure isolation.  A step in which a refresh_once() raises, in the
\* factory or in any page fetch of any kind, publishes nothing: it leaves
\* self._snap, timestamp and four collections, as it was.
C2_FailureIsolation ==
    [][(\E c \in Callers : Fails(c)) => snap' = snap]_vars

\* C2 witness: a cycle of the loop has failed after an earlier cycle had
\* published, and the loop is in its inter-cycle wait.
C2_Witness ==
    \E t \in TaskIds :
        /\ task[t].res = "fail"
        /\ task[t].st = "wait"
        /\ snap.sites.cyc >= 1
        /\ ncycles > snap.sites.cyc

----------------------------------------------------------------------------
(* The lifecycle under fairness *)

\* start(), the loop task, and one caller of stop()
NextLoop ==
    \/ WireFmFactory
    \/ Start
    \/ \E t \in TaskIds : LoopRun(t)
    \/ \E t \in TaskIds : LoopWhile(t)
    \/ \E t \in TaskIds : LoopWakeSignal(t)
    \/ \E t \in TaskIds : LoopWakeTimeout(t)
    \/ \E t \in TaskIds : TaskCancelled(t)
    \/ \E c \in TaskIds : FetchReturn(c)
    \/ \E c \in TaskIds : FetchRaise(c)
    \/ \E s \in OneStopper : StopCall(s)
    \/ \E s \in OneStopper : StopResume(s)
    \/ \E s \in OneStopper : StopTimeout(s)
    \/ \E s \in OneStopper : StopAfterTimeout(s)

\* The event loop runs every coroutine that can run, and every page fetch
\* is answered, with a page or with an exception.
LoopFairness ==
    /\ \A t \in TaskIds :
         /\ WF_vars(LoopRun(t))
         /\ WF_vars(LoopWhile(t))
         /\ WF_vars(LoopWakeSignal(t))
         /\ WF_vars(TaskCancelled(t))
         /\ WF_vars(FetchReturn(t) \/ FetchRaise(t))
    /\ \A s \in OneStopper :
         /\ WF_vars(StopResume(s))
         /\ WF_vars(StopAfterTimeout(s))

\* ... and the interval of every inter-cycle wait runs out.
SpecLoopFair ==
    Init /\ [][NextLoop]_vars /\ LoopFairness
         /\ \A t \in TaskIds : WF_vars(LoopWakeTimeout(t))

\* ... while no interval ever needs to run out.
SpecStartFair == Init /\ [][NextLoop]_vars /\ LoopFairness

\* The stop signal is set, or the task is being cancelled by a stop().
Stopping(t) == stop_event \/ task[t].cancel \/ task[t].st = "cancelled"

\* C3: the loop never dies from a bad refresh.  A loop task ends only with
\* the stop signal set or cancelled by stop(); and after an attempt of the
\* task that raised, its n-th, the task goes on to attempt its (n+1)-th,
\* unless a stop() intervenes (or the model's MaxCycles is reached).
C3_LoopSurvives ==
    /\ [][\A t \in TaskIds : (Alive(t) /\ ~Alive(t)') => Stopping(t)]_vars
    /\ \A t \in TaskIds : \A n \in 1..MaxCycles :
         (task[t].res = "fail" /\ task[t].att = n /\ Alive(t))
           ~> (task[t].att > n \/ Stopping(t) \/ task[t].st = "parked")

\* C3 witness: the loop is alive, unstopped, after three attempts that all
\* failed (nothing was ever published).
C3_Witness ==
    \E t \in TaskIds :
        /\ task[t].att >= 3
        /\ task[t].res = "fail"
        /\ ncycles = task[t].att
        /\ snap = InitialSnapshot
        /\ Alive(t)
        /\ ~stop_event

\* C4: start() is idempotent.  As long as no stop() has been called, any
\* number of start() calls has created exactly one loop task, which is
\* alive and is the one the handle refers to; and a start() that finds the
\* handle set changes nothing.
C4_StartIdempotent ==
    /\ [](nstarts >= 1 /\ (\A s \in StopCallers : stopc[s].pc = "idle")
           => /\ ntasks = 1
              /\ refresh_task = TaskNames[1]
              /\ Cardinality({t \in TaskIds : Alive(t)}) = 1)
    /\ [][nstarts' > nstarts /\ refresh_task # None
           => UNCHANGED <<refresh_task, stop_event, task, ntasks, snap, last_good_token>>]_vars

\* C4 witness: start() was called twice, no stop(), one task.
C4_Witness ==
    /\ nstarts >= 2
    /\ \A s \in StopCallers : stopc[s].pc = "idle"
    /\ ntasks = 1

\* C5: stop() is idempotent and does not error when called twice,
\* whether the second call comes after the first has returned or while the
\* first still waits for the loop: no call of stop() ever ends raising.
C5_StopTwiceNoError ==
    \A s \in StopCallers : stopc[s].pc # "raised"

\* C6: stop() never hangs and never surfaces the shutdown timeout.  In
\* every loop state a call of stop() that ends returns to its caller, it
\* does not raise; and when it returns, the task it waited for has ended
\* and the task handle is cleared.
C6_StopReturns ==
    [][\A s \in StopCallers :
         (stopc[s].pc \notin {"returned", "raised"}
            /\ stopc'[s].pc \in {"returned", "raised"})
         => /\ stopc'[s].pc = "returned"
            /\ refresh_task' = None
            /\ stopc'[s].waits # None =>
                 task'[stopc'[s].waits].st \in {"done", "cancelled"}]_vars

\* C7: stop responsiveness.  A stop() called while the loop is in its
\* inter-cycle wait never runs into the grace timeout and never cancels:
\* it waits, then returns by the cooperative path; the loop it waits for
\* stays in the wait or has left; and a loop in the wait with the stop
\* event set leaves at its next step, without another refresh_once().
C7_StopResponsive ==
    /\ [](\A s \in StopCallers :
            stopc[s].at = "wait"
            => /\ stopc[s].pc \in {"await", "returned"}
               /\ stopc[s].path \in {"none", "coop"}
               /\ task[stopc[s].waits].st \in {"wait", "done"})
    /\ [][\A t \in TaskIds :
            (task[t].st = "wait" /\ stop_event /\ task'[t] # task[t])
            => (task'[t].st = "done" /\ task'[t].att = task[t].att)]_vars

\* C7 witness: a stop() called during the inter-cycle wait has returned by
\* the cooperative path, and the loop has left.
C7_Witness ==
    \E s \in StopCallers :
        /\ stopc[s].at = "wait"
        /\ stopc[s].pc = "returned"
        /\ stopc[s].path = "coop"
        /\ task[stopc[s].waits].st = "done"

\* C8: stop() before wiring is responsive.  While no factory is wired no
\* refresh_once run and no fetch exists and every loop task only polls; a
\* polling loop that runs with the stop event set and the factory still
\* unwired leaves, never having called refresh_once(); and a stop() called
\* on a polling loop that has not gone on to refresh has not timed out,
\* cancelled or raised: it waits or has returned cooperatively.
C8_StopBeforeWiring ==
    /\ [](~fm_factory
            => /\ ncycles = 0
               /\ \A c \in Callers : rc[c].pc = "idle"
               /\ \A t \in TaskIds :
                    /\ task[t].att = 0
                    /\ task[t].st \in {"unborn", "created", "sleep", "done"})
    /\ [](\A s \in StopCallers :
            (/\ stopc[s].at \in {"created", "sleep"}
             /\ task[stopc[s].waits].att = 0
             /\ task[stopc[s].waits].st \notin {"parked", "cancelled"})
            => /\ stopc[s].pc \in {"await", "returned"}
               /\ stopc[s].path \in {"none", "coop"})
    /\ [][\A t \in TaskIds :
            (/\ task[t].st \in {"created", "sleep"}
             /\ ~fm_factory
             /\ stop_event
             /\ task'[t] # task[t])
            => (task'[t].st = "done" /\ task'[t].att = 0)]_vars

\* C8 witness: with the factory still unwired, a stop() called on a loop
\* that was sleeping between polls has returned cooperatively.
C8_Witness ==
    \E s \in StopCallers :
        /\ ~fm_factory
        /\ stopc[s].at = "sleep"
        /\ stopc[s].pc = "returned"
        /\ stopc[s].path = "coop"
        /\ task[stopc[s].waits].st = "done"

----------------------------------------------------------------------------
(* A cache that is never wired *)

\* every call but wire_fm_factory()
NextUnwired ==
    \/ Start
    \/ \E t \in TaskIds : LoopRun(t)
    \/ \E d \in Direct : DirectRefresh(d)
    \/ \E s \in StopCallers : StopCall(s)
    \/ \E s \in StopCallers : StopResume(s)
    \/ \E tok \in TokenInputs : NoteToken(tok)
    \/ \E r \in Readers : Snapshot(r)
    \/ Tick

SpecUnwired == Init /\ [][NextUnwired]_vars

\* C9: a cache whose factory is never wired never refreshes.  As long as
\* wire_fm_factory() has not been called, whatever start(), stop(),
\* note_token() and refresh_once() calls were made, no fetch has been
\* issued, the snapshot is the initial one, and every refresh_once() call
\* has returned at once, without an error.
C9_NeverWired ==
    ~fm_factory
    => /\ snap = InitialSnapshot
       /\ ncycles = 0
       /\ \A c \in Callers : rc[c].pc = "idle"
       /\ \A d \in Direct : dres[d] \in {"none", "noop"}
       /\ \A t \in TaskIds : task[t].att = 0 /\ task[t].res = "none"
       /\ \A r \in Readers : held[r] \subseteq {InitialSnapshot}

\* C9 witness: unwired, after a start(), a poll of the loop, a stop() that
\* returned, a note_token() that stored a token, a refresh_once() that
\* returned, and a snapshot() read.
C9_Witness ==
    /\ ~fm_factory
    /\ \E t \in TaskIds : task[t].slept
    /\ \E s \in StopCallers : stopc[s].pc = "returned" /\ stopc[s].path = "coop"
    /\ last_good_token # None
    /\ \E d \in Direct : dres[d] = "noop"
    /\ \E r \in Readers : held[r] # {}
    /\ now > 1

\* C10: the order of start() and wire_fm_factory() does not matter.  Once
\* the factory is wired and a loop task is alive, the task gets a snapshot
\* with a non-zero timestamp published, without any refresh interval
\* having to run out, unless a refresh attempt fails or a stop()
\* intervenes (or the model's MaxCycles is reached).
C10_StartupOrder ==
    \A t \in TaskIds :
        (fm_factory /\ Alive(t))
          ~> (snap.ts # 0 \/ task[t].res = "fail" \/ Stopping(t)
                \/ task[t].st = "parked")

\* C10 witness: a loop that was started before the wiring, and polled, has
\* published with its first refresh_once().
C10_Witness ==
    \E t \in TaskIds :
        /\ task[t].slept
        /\ task[t].att = 1
        /\ snap.ts # 0
        /\ snap.sites.cyc = 1
        /\ ~stop_event

----------------------------------------------------------------------------
(* Paging and the constructor's arguments *)

\* what the constructor may be given
IntervalInputs == {-1, 0, 5, 29, 30, 31, 300}
MaxFetchInputs == {-1, 0, 10, 99, 100, 101, 240, 500, 501, 5000}
\* how many records upstream may hold of the kind under study
DataSizes == {0, 240, 500, 1000, 1240}

\* a cache constructed with any max_fetch, over any such dataset
InitPaging ==
    \E m \in MaxFetchInputs, k0 \in 1..NKinds, n \in DataSizes :
        InitWith(DefaultInterval, m, PagingUpstream(k0, n))

\* a cache constructed with any pair of arguments
InitConstruct ==
    \E i \in IntervalInputs, m \in MaxFetchInputs : InitWith(i, m, LifeUpstream)

\* a wired cache and refresh_once() called by one caller at a time
NextPaging ==
    \/ WireFmFactory
    \/ \E d \in Direct : DirectRefresh(d)
    \/ \E d \in Direct : FetchReturn(d)
    \/ \E d \in Direct : FetchRaise(d)

SpecPaging == InitPaging /\ [][NextPaging]_vars

SpecConstruct == InitConstruct /\ [][NextPaging]_vars

\* the offsets 0, L, ..., (j-1)L
Offsets(j) == [x \in 1..j |-> (x - 1) * Limit]
\* the pending page request of d is answered with a page in this step
PageAnswered(d) == rc[d].pc = "fetch" /\ rc'[d] # rc[d] /\ dres'[d] # "fail"
\* ... and that page ends the paging of its kind
KindDone(d) == rc'[d].pc = "idle" \/ rc'[d].kind # rc[d].kind
\* the collection _page returned for that kind
Finished(d) == IF rc'[d].pc = "idle" THEN snap'.links ELSE rc'[d].got[rc[d].kind]

\* C11: paging termination.  For each kind the requests go out with the
\* fixed limit L = min(self._max_fetch, 500) at the offsets 0, L, 2L, ...,
\* the pages are appended in order, and the paging stops at the first page
\* that is empty or shorter than L: a dataset of n records takes
\* (n div L) + 1 requests (k+1 for k*L records, 1 for none) and yields
\* exactly its n records, whatever n is.
C11_Paging ==
    /\ [](\A d \in Direct :
            rc[d].pc = "fetch"
            => /\ Limit = (IF max_fetch < 500 THEN max_fetch ELSE 500)
               /\ rc[d].reqs = Offsets(Len(rc[d].reqs))
               /\ rc[d].offset = rc[d].reqs[Len(rc[d].reqs)]
               /\ rc[d].out = Dataset(rc[d].offset))
    /\ [][\A d \in Direct :
            PageAnswered(d)
            => LET n == upstream[rc[d].kind]
                   q == n \div Limit
               IN  IF KindDone(d)
                   THEN /\ Len(rc[d].reqs) = q + 1
                        /\ Finished(d).recs = Dataset(n)
                   ELSE /\ Len(rc[d].reqs) <= q
                        /\ rc'[d].reqs = Append(rc[d].reqs, rc[d].offset + Limit)]_vars

\* C11 witness: with L = 500 and 1240 sites, one refresh has published the
\* 1240 sites, and the next one has requested the offsets 0, 500 and 1000.
C11_Witness ==
    /\ Limit = 500
    /\ upstream[1] = 1240
    /\ snap.sites.recs = Dataset(1240)
    /\ \E d \in Direct :
         /\ rc[d].pc = "fetch"
         /\ rc[d].kind = 1
         /\ rc[d].reqs = <<0, 500, 1000>>
         /\ Len(rc[d].out) = 1000

\* C12: floor clamping.  ResourceCache(interval_seconds=i, max_fetch=m) has
\* the refresh interval max(30, i) and the maximum page fetch max(100, m):
\* values below the floor become the floor, others are kept.
C12_FloorClamping ==
    /\ interval = (IF args.interval_seconds < 30 THEN 30 ELSE args.interval_seconds)
    /\ max_fetch = (IF args.max_fetch < 100 THEN 100 ELSE args.max_fetch)

\* C12 witness: interval 5 gave 30 and max fetch 10 gave 100, and a page
\* request with that limit is pending.
C12_Witness ==
    /\ args = [interval_seconds |-> 5, max_fetch |-> 10]
    /\ interval = 30
    /\ max_fetch = 100
    /\ Limit = 100
    /\ \E d \in Direct : rc[d].pc = "fetch"

----------------------------------------------------------------------------
(* Readers, query tools, note_token and refreshes *)

\* refresh_once() runs, a reader and the query tool
NextReaders ==
    \/ WireFmFactory
    \/ \E d \in Direct : DirectRefresh(d)
    \/ \E d \in Direct : FetchReturn(d)
    \/ \E d \in Direct : FetchRaise(d)
    \/ \E r \in Readers : Snapshot(r)
    \/ \E r \in Readers, f \in FilterInputs, limit \in {{}, {1}},
          sort \in {{}, {[field |-> "v", direction |-> "desc"]}} :
            QuerySites(r, "tokA", f, sort, limit, 0)
    \/ \E r \in Readers : QueryReturn(r)
    \/ \E r \in Readers : QueryRaise(r)

SpecReaders == Init /\ [][NextReaders]_vars

\* refresh_once() runs and has_data(), over changing data and time
NextData ==
    \/ WireFmFactory
    \/ \E d \in Direct : DirectRefresh(d)
    \/ \E d \in Direct : FetchReturn(d)
    \/ \E d \in Direct : FetchRaise(d)
    \/ \E r \in Readers : HasData(r)
    \/ Tick
    \/ UpstreamChange

SpecData == Init /\ [][NextData]_vars

\* the loop and note_token()
NextToken ==
    \/ WireFmFactory
    \/ Start
    \/ \E t \in TaskIds : LoopRun(t)
    \/ \E t \in TaskIds : LoopWhile(t)
    \/ \E t \in TaskIds : LoopWakeTimeout(t)
    \/ \E t \in TaskIds : FetchReturn(t)
    \/ \E t \in TaskIds : FetchRaise(t)
    \/ \E tok \in TokenInputs : NoteToken(tok)

SpecToken == Init /\ [][NextToken]_vars

\* refresh_once(), note_token(), snapshot() and has_data() called concurrently
NextLocks ==
    \/ WireFmFactory
    \/ \E d \in Direct : DirectRefresh(d)
    \/ \E d \in Direct : FetchReturn(d)
    \/ \E d \in Direct : FetchRaise(d)
    \/ \E tok \in TokenInputs : NoteToken(tok)
    \/ \E r \in Readers : Snapshot(r)
    \/ \E r \in Readers : HasData(r)

SpecLocks == Init /\ [][NextLocks]_vars

\* C13: note_token records the most recently seen credential and does
\* nothing for an empty or absent one.  The stored credential is the last
\* non-empty token passed (none before the first such call): a call with a
\* token stores it, a call with None or "" leaves the stored one as it is,
\* nothing else changes it, and once set it is never cleared; and a
\* note_token call changes neither the snapshot nor the loop's state.
C13_NoteToken ==
    /\ [](noted.n = 0 => last_good_token = None)
    /\ [](noted.tok \in Tokens => last_good_token = noted.tok)
    /\ [][(noted'.n > noted.n /\ noted'.tok \notin Tokens)
            => last_good_token' = last_good_token]_vars
    /\ [][last_good_token' # last_good_token
            => (noted'.n > noted.n /\ last_good_token' = noted'.tok)]_vars
    /\ [][last_good_token # None => last_good_token' \in Tokens]_vars
    /\ [][noted' # noted
            => UNCHANGED <<snap, heap, snap_obj, fm_factory, refresh_task,
                           stop_event, task, rc, ncycles, interval, max_fetch>>]_vars

\* C13 witness: with the loop in a page fetch, a token was noted and then
\* an empty one, and the first is still stored.
C13_Witness ==
    /\ noted.n = 2
    /\ noted.tok \in {None, ""}
    /\ last_good_token \in Tokens
    /\ \E t \in TaskIds : rc[t].pc = "fetch" /\ rc[t].token = None

\* C14: credential lock independence.  No coroutine is ever suspended
\* holding the token lock or the write lock, so that none holds both, no
\* acquisition ever waits and no interleaving of note_token, snapshot(),
\* has_data() and refresh_once deadlocks; a refresh_once run reads the
\* token in another step than the one in which it publishes; snapshot() and
\* has_data() can run in every state, and so can note_token, also while a
\* page fetch is in flight.
C14_LockIndependence ==
    /\ [](rw_lock = "free" /\ token_lock = "free")
    /\ [](\A r \in Readers : ENABLED Snapshot(r) /\ ENABLED HasData(r))
    /\ [](noted.n < MaxNotes => \A tok \in TokenInputs : ENABLED NoteToken(tok))
    /\ [][\A c \in Callers :
            (rc[c].pc = "idle" /\ rc'[c].pc = "fetch") => snap' = snap]_vars

\* C14 witness: while a page fetch is in flight, a token was stored that
\* the refresh has not read, and a reader got a snapshot and a has_data()
\* answer.
C14_Witness ==
    \E d \in Direct, r \in Readers :
        /\ rc[d].pc = "fetch"
        /\ rc[d].kind >= 2
        /\ last_good_token \in Tokens
        /\ last_good_token # rc[d].token
        /\ held[r] # {}
        /\ hasd[r] # {}

\* C15: has_data() returns true if and only if at least one of the four
\* collections of the current snapshot is non-empty; so it returns false
\* before any refresh has published, and after a refresh that found all
\* four kinds empty.
C15_HasData ==
    \A r \in Readers : \A x \in hasd[r] :
        x.val <=> (\E k \in 1..NKinds : Len(x.of[KindNames[k]].recs) > 0)

\* C15 witness: has_data() answered false on a snapshot that a refresh
\* published with four empty collections.
C15_Witness ==
    \E r \in Readers : \E x \in hasd[r] :
        /\ ~x.val
        /\ x.of.sites.cyc >= 1
        /\ x.of.ts # 0
        /\ x.of = snap

\* C16: the empty-state sentinel.  The current snapshot's timestamp is 0
\* if and only if no refresh has published yet (self._snap is still the
\* object of the constructor), and then the four collections are empty;
\* every snapshot a refresh publishes has a non-zero timestamp, also one
\* with four empty collections.
C16_Sentinel ==
    /\ [](snap.ts = 0 <=> snap_obj = 0)
    /\ [](snap.ts = 0 => snap = InitialSnapshot)
    /\ [][snap' # snap => (snap'.ts # 0 /\ snap_obj' # 0)]_vars

\* C16 witness: a published snapshot with four empty collections and a
\* non-zero timestamp.
C16_Witness ==
    /\ snap_obj >= 1
    /\ snap.ts # 0
    /\ \A k \in 1..NKinds : snap[KindNames[k]].recs = <<>>
    /\ upstream = PagingUpstream(1, 0)

\* C17: a snapshot, once constructed, is never mutated.  No CacheSnapshot
\* object that is referred to ever changes; every change of the current
\* snapshot installs an object that did not exist before; so the object a
\* reader got from snapshot() still reads as it did (timestamp and four
\* collections), after later refreshes and query_sites calls.
C17_NeverMutated ==
    /\ [](snap = heap[snap_obj])
    /\ [](\A r \in Readers :
            held[r] # {} => (held_obj[r] \in DOMAIN heap /\ heap[held_obj[r]] \in held[r]))
    /\ [][\A o \in DOMAIN heap \cap DOMAIN heap' : heap'[o] = heap[o]]_vars
    /\ [][snap' # snap => snap_obj' \notin DOMAIN heap]_vars

\* C17 witness: a reader holds the snapshot of the first refresh, a second
\* refresh has published since, and a query was served from the cache.
C17_Witness ==
    \E r \in Readers :
        /\ held[r] # {}
        /\ held_obj[r] = 1
        /\ snap_obj = 2
        /\ heap[held_obj[r]].sites.recs # <<>>
        /\ \E q \in qres[r] : q.path = "cache" /\ q.out # <<>>

\* C18: at most one refresh executes at a time: in every reachable state
\* at most one refresh_once() execution is in progress.
C18_SingleRefresh ==
    Cardinality({c \in Callers : rc[c].pc # "idle"}) <= 1

\* the records of two snapshots are the same in all four collections
SameRecs(a, b) == \A k \in 1..NKinds : a[KindNames[k]].recs = b[KindNames[k]].recs

\* C19: the cache never holds two different snapshots with the same
\* timestamp: a publication that keeps the timestamp of the snapshot it
\* replaces keeps the records of its four collections.
C19_DistinctStamps ==
    [][(snap_obj' # snap_obj /\ snap'.ts = snap.ts) => SameRecs(snap', snap)]_vars

\* the runs whose collections make up snapshot s
RunsOf(s) == {s[KindNames[k]].cyc : k \in 1..NKinds}

\* C20: a forced cancellation mid-refresh publishes nothing.  The step that
\* ends a cancelled loop task leaves the snapshot as it is; no collection
\* of the run that was cut short is ever in the current snapshot or in one
\* a reader got; the snapshot changes only in the step in which a run of a
\* live, uncancelled task (or of a direct refresh_once call) gets its last
\* page; and when stop() has returned after a timeout, the task it waited
\* for has ended cancelled, so that only a refresh of a later start() or a
\* direct call changes the snapshot again.
C20_CancelPublishesNothing ==
    /\ [][\A t \in TaskIds :
            (Alive(t) /\ task'[t].st = "cancelled") => snap' = snap]_vars
    /\ [](\A t \in TaskIds :
            (task[t].st = "cancelled" /\ rc[t].cyc > 0)
            => /\ rc[t].cyc \notin RunsOf(snap)
               /\ \A r \in Readers : \A s \in held[r] : rc[t].cyc \notin RunsOf(s))
    /\ [][snap' # snap
            => \E c \in Callers :
                 /\ rc[c].pc = "fetch"
                 /\ rc[c].kind = NKinds
                 /\ RunsOf(snap') = {rc[c].cyc}
                 /\ c \in TaskIds => (Alive(c) /\ ~task[c].cancel)]_vars
    /\ [](\A s \in OneStopper :
            (stopc[s].pc = "returned" /\ stopc[s].path = "forced")
            => task[stopc[s].waits].st = "cancelled")

\* C20 witness: stop() was called with the loop in a page fetch of its
\* second refresh and has returned after cancelling it; the snapshot is
\* still the one of the first refresh.
C20_Witness ==
    \E s \in OneStopper :
        /\ stopc[s].pc = "returned"
        /\ stopc[s].path = "forced"
        /\ stopc[s].at = "fetch"
        /\ task[stopc[s].waits].st = "cancelled"
        /\ rc[stopc[s].waits].cyc = 2
        /\ RunsOf(snap) = {1}

----------------------------------------------------------------------------
(* The query tools *)

\* what upstream holds in the runs of the query tools: sites only and one
\* host; no sites; nothing
QueryDatasets == {<<4, 1, 0, 0>>, <<0, 3, 0, 2>>, <<0, 0, 0, 0>>}

\* topology.py as imported (CACHE = None, line 18), a cache constructed
InitQuery ==
    \E up \in QueryDatasets :
        InitAll(DefaultInterval, DefaultMaxFetch, up, FALSE, MaxFetchForSort, <<>>)

\* the four tools called with and without a token, set_cache, and one
\* refresh_once() run
NextQuery ==
    \/ \E cs \in BOOLEAN : SetCache(cs)
    \/ WireFmFactory
    \/ \E d \in Direct : ncycles = 0 /\ DirectRefresh(d)
    \/ \E d \in Direct : FetchReturn(d)
    \/ \E d \in Direct : FetchRaise(d)
    \/ \E r \in Readers, tok \in BearerInputs, f \in FilterInputs :
          QuerySites(r, tok, f, {}, {200}, 0)
    \/ \E r \in Readers, tok \in BearerInputs, f \in FilterInputs :
          QueryHosts(r, tok, f, {}, {200}, 0)
    \/ \E r \in Readers, tok \in BearerInputs, f \in FilterInputs :
          QueryFacilityPorts(r, tok, f, {}, {200}, 0)
    \/ \E r \in Readers, tok \in BearerInputs, f \in FilterInputs :
          QueryLinks(r, tok, f, {}, {200}, 0)
    \/ \E r \in Readers : QueryReturn(r)
    \/ \E r \in Readers : QueryRaise(r)

SpecQuery == InitQuery /\ [][NextQuery]_vars

\* the records of a list
Recs(l) == {l[i] : i \in 1..Len(l)}

\* the call took the live path
WentLive(q) == q.path \in {"pending", "live", "upstream_error"}

\* C21: the hit/miss contract of the query tools.  A tool serves from the
\* cache exactly when a cache is set and the snapshot's collection of the
\* tool's own kind is non-empty; it then makes no upstream call, whatever
\* the request's token, and returns records of that collection that pass
\* the filter.  Otherwise a request without a token fails before any
\* upstream call, and one with a token makes exactly one upstream call, for
\* the tool's kind and with that token.  No step of a query tool, a failed
\* live fetch included, changes the cache.
C21_HitMiss ==
    /\ [](\A r \in Readers : \A q \in qres[r] :
            LET hit == q.cache_set /\ q.coll # <<>>
            IN  /\ q.path = "cache" <=> hit
                /\ q.path = "cache"
                   => /\ q.calls = <<>>
                      /\ Recs(q.out) \subseteq {x \in Recs(q.coll) : Keep(q.f, x)}
                /\ q.path = "auth_error" <=> (~hit /\ q.tok \in {None, ""})
                /\ q.path = "auth_error" => q.calls = <<>>
                /\ WentLive(q) <=> (~hit /\ q.tok \notin {None, ""})
                /\ WentLive(q)
                   => /\ Len(q.calls) = 1
                      /\ q.calls[1].kind = q.kind
                      /\ q.calls[1].id_token = q.tok)
    /\ [][qres' # qres
            => UNCHANGED <<snap, heap, snap_obj, last_good_token, fm_factory,
                           refresh_task, stop_event, task, rc, CACHE>>]_vars

\* C21 witness: the refresh found no sites but hosts; query_sites, with
\* the cache set, went upstream and the fetch failed.
C21_Witness ==
    \E r \in Readers : \E q \in qres[r] :
        /\ q.path = "upstream_error"
        /\ q.kind = 1
        /\ q.cache_set
        /\ snap.ts # 0
        /\ snap.sites.recs = <<>>
        /\ snap.hosts.recs # <<>>
        /\ snap_obj # 0

----------------------------------------------------------------------------
(* The live path of query_sites *)

\* how many sites upstream holds in the runs of query_sites
SiteCounts == {0, 2, 4}
\* MAX_FETCH_FOR_SORT set to 2, or left at its default
MaxFetchForSortInputs == {2, MaxFetchForSort}
\* the sort arguments of these runs: none, one without a field, one with
\* the default direction, a descending one
LiveSorts == {{}, {[field |-> None, direction |-> "desc"]},
              {[field |-> "v", direction |-> None]},
              {[field |-> "v", direction |-> "desc"]}}

InitLive ==
    \E n \in SiteCounts, mfs \in MaxFetchForSortInputs :
        InitAll(DefaultInterval, DefaultMaxFetch, PagingUpstream(1, n), FALSE, mfs, <<>>)

\* query_sites called with a token, set_cache, and one refresh_once() run
NextLive ==
    \/ \E cs \in BOOLEAN : SetCache(cs)
    \/ WireFmFactory
    \/ \E d \in Direct : ncycles = 0 /\ DirectRefresh(d)
    \/ \E d \in Direct : FetchReturn(d)
    \/ \E d \in Direct : FetchRaise(d)
    \/ \E r \in Readers, f \in FilterInputs, sort \in LiveSorts,
          limit \in LimitInputs, offset \in OffsetInputs :
            QuerySites(r, "tokA", f, sort, limit, offset)
    \/ \E r \in Readers : QueryReturn(r)
    \/ \E r \in Readers : QueryRaise(r)

SpecLive == InitLive /\ [][NextLive]_vars

\* the records of kind k upstream holds that pass the filter
Passing(k, f) == SelectSeq(Dataset(upstream[k]), LAMBDA x : Keep(f, x))

\* C22: on the live path the tool asks upstream, at offset 0, for
\* max_fetch_for_sort records when a sort is given and for the caller's
\* limit otherwise; with a sort, what it returns is the (limit, offset)
\* window of the sorted first max_fetch_for_sort records upstream has for
\* the filter.
C22_LiveFetch ==
    \A r \in Readers : \A q \in qres[r] :
        /\ WentLive(q)
           => /\ q.calls[1].offset = 0
              /\ q.calls[1].filters = q.f
              /\ q.sort # {} => q.calls[1].limit = {max_fetch_for_sort}
              /\ q.sort = {} => q.calls[1].limit = q.limit
        /\ (q.path = "live" /\ q.sort # {})
           => LET first == Slice(Passing(q.kind, q.f), 0, max_fetch_for_sort)
              IN  q.out = Paginate(ApplySort(first, q.sort), q.limit, q.offset)

\* C22 witness: four sites upstream, max_fetch_for_sort = 2; a descending
\* query with limit 1 and offset 1 returned the second of the first two
\* records sorted.
C22_Witness ==
    \E r \in Readers : \E q \in qres[r] :
        /\ q.path = "live"
        /\ upstream[1] = 4
        /\ max_fetch_for_sort = 2
        /\ q.f = None
        /\ q.sort = {[field |-> "v", direction |-> "desc"]}
        /\ q.limit = {1}
        /\ q.offset = 1
        /\ q.calls[1].limit = {2}
        /\ q.out = <<2>>

\* C29: the cache path and the live path are equivalent.  A call answered
\* by the live fetch returns what the tool returns, for the same
\* arguments, from a cache that holds the same upstream dataset.
C29_PathEquivalence ==
    \A r \in Readers : \A q \in qres[r] :
        (/\ q.path = "live"
         /\ snap[KindNames[q.kind]].recs # <<>>
         /\ snap[KindNames[q.kind]].recs = Dataset(upstream[q.kind]))
        => q.out = CacheAnswer(q.kind, q.f, q.sort, q.limit, q.offset)

----------------------------------------------------------------------------
(* The loop's attempts *)

\* C23: no retry before the next tick.  A loop task whose last refresh
\* attempt failed begins its next attempt only out of the inter-cycle wait
\* of line 117.
C23_NoRetryBeforeTick ==
    [][\A t \in TaskIds :
         (task[t].res = "fail" /\ task'[t].att > task[t].att)
         => task[t].st = "wait"]_vars

\* C24: within one refresh_once() run the credential is read once, before
\* the first fetch, and passed to every page request.  A run begins with
\* the token stored at that moment; while the run is in flight its token
\* does not change, whatever note_token() stores meanwhile; every page
\* request of the run carries that token; and the requests go out kind by
\* kind in the order sites, hosts, facility_ports, links.
C24_TokenReadOnce ==
    /\ [][\A c \in Callers :
            (rc[c].pc = "idle" /\ rc'[c].pc = "fetch")
            => rc'[c].token = last_good_token]_vars
    /\ [][\A c \in Callers :
            (rc[c].pc = "fetch" /\ rc'[c].pc = "fetch")
            => (rc'[c].token = rc[c].token /\ rc'[c].cyc = rc[c].cyc)]_vars
    /\ [](\A c \in Callers :
            rc[c].pc = "fetch"
            => LET sent == rc[c].sent
               IN  /\ sent # <<>>
                   /\ sent[1].kind = 1
                   /\ sent[Len(sent)].kind = rc[c].kind
                   /\ \A i \in 1..Len(sent) : sent[i].id_token = rc[c].token
                   /\ \A i \in 1..(Len(sent) - 1) :
                        sent[i + 1].kind \in {sent[i].kind, sent[i].kind + 1})

\* C24 witness: a refresh that began without a token requests a page of
\* the third kind without a token, while note_token() has stored one.
C24_Witness ==
    \E t \in TaskIds :
        /\ rc[t].pc = "fetch"
        /\ rc[t].kind = 3
        /\ rc[t].token = None
        /\ last_good_token \in Tokens
        /\ Len(rc[t].sent) = 3
        /\ rc[t].sent[3] = [kind |-> 3, id_token |-> None]

----------------------------------------------------------------------------
(* apply_sort *)

\* the records of the lists sorted: 1 and 4 have the same value, 2 a
\* smaller one, 3 none
SortRecs == 1..4
RECURSIVE ListsUpTo(_)
ListsUpTo(n) ==
    IF n = 0 THEN {<<>>}
    ELSE LET shorter == ListsUpTo(n - 1)
         IN  shorter \cup {Append(l, x) : l \in {y \in shorter : Len(y) = n - 1},
                                          x \in SortRecs}
SortLists == ListsUpTo(MaxItems)

NextSort ==
    \E r \in Readers, items \in SortLists, sort \in SortInputs :
        SortCall(r, items, sort)

SpecSort == Init /\ [][NextSort]_vars

\* l2 is a permutation of l1
IsPermutation(l1, l2) ==
    /\ Len(l1) = Len(l2)
    /\ \A x \in SortRecs :
         Cardinality({i \in 1..Len(l1) : l1[i] = x})
           = Cardinality({i \in 1..Len(l2) : l2[i] = x})

\* C25: apply_sort places the records whose sort field is None last,
\* whatever the direction.  With a sort spec that names a field the
\* result is a permutation of the input in which every record with a
\* value comes before every record without one, and the records with a
\* value are in ascending order of it, or in descending order for
\* direction "desc"; without a sort spec or without a field the result is
\* the input.
C25_NoneLast ==
    \A r \in Readers : \A q \in qres[r] :
        q.path = "sort"
        => IF q.sort = {} \/ (q.sort # {} /\ TheOne(q.sort).field = None)
           THEN q.out = q.items
           ELSE LET out  == q.out
                    desc == TheOne(q.sort).direction = "desc"
                IN  /\ IsPermutation(q.items, out)
                    /\ \A i, j \in 1..Len(out) :
                         (Get(out[i]) # {} /\ Get(out[j]) = {}) => i < j
                    /\ \A i, j \in 1..Len(out) :
                         (i < j /\ Get(out[i]) # {} /\ Get(out[j]) # {})
                         => IF desc
                            THEN TheOne(Get(out[i])) >= TheOne(Get(out[j]))
                            ELSE TheOne(Get(out[i])) <= TheOne(Get(out[j]))

----------------------------------------------------------------------------
(* query_slices *)

\* the lists of slices upstream may hold
SliceLists == UNION {[1..n -> SliceStates] : n \in 0..MaxSlices}

InitSlices ==
    \E sl \in SliceLists :
        InitAll(DefaultInterval, DefaultMaxFetch, LifeUpstream, TRUE,
                MaxFetchForSort, sl)

NextSlices ==
    \/ \E r \in Readers, tok \in {None, "tokA"}, slice_id \in SliceIdInputs,
          exclude \in ExcludeInputs, offset \in OffsetInputs,
          limit \in SliceLimits, fetch_all \in BOOLEAN :
            SlicesCall(r, tok, slice_id, exclude, offset, limit, fetch_all)
    \/ \E r \in Readers : SlicesReturn(r)
    \/ \E r \in Readers : SlicesRaise(r)

SpecSlices == InitSlices /\ [][NextSlices]_vars

\* C26: query_slices with fetch_all=True fetches all pages.  Without a
\* slice_id the result holds every slice upstream has from the starting
\* offset on whose state is not excluded, however the excluded ones are
\* spread over the pages; with fetch_all=False exactly one page is
\* requested.
C26_FetchAll ==
    \A r \in Readers : \A q \in qres[r] :
        (q.path = "slices" /\ q.slice_id = {})
        => /\ q.fetch_all
              => {p[2] : p \in q.out}
                   = {i \in (q.offset + 1)..Len(slices) : slices[i] \notin q.exclude}
           /\ ~q.fetch_all => Len(q.calls) = 1

----------------------------------------------------------------------------
(* start() and stop() interleaved *)

\* the loop tasks that run and have not been cancelled
Running == {t \in TaskIds : Alive(t) /\ ~task[t].cancel}

\* C27: under any interleaving of start() and stop() calls at most one
\* loop task is alive, and while a loop task is alive the cache's handle
\* refers to it.  (A task that stop() has cancelled and that has not yet
\* been resumed with its CancelledError does not count as alive.)
C27_OneLoop ==
    /\ Cardinality(Running) <= 1
    /\ \A t \in Running : refresh_task = t

\* C28: once the stop signal is set the loop begins no new refresh.  A
\* loop task begins a refresh attempt only in a state in which the stop
\* event is not set.
C28_NoRefreshAfterStop ==
    [][\A t \in TaskIds : task'[t].att > task[t].att => ~stop_event]_vars

----------------------------------------------------------------------------
(* The timestamps of successive publications *)

\* the loop and refresh_once() called from outside it at the same time,
\* while time passes
NextClock ==
    \/ WireFmFactory
    \/ Start
    \/ \E t \in TaskIds : LoopRun(t)
    \/ \E t \in TaskIds : LoopWhile(t)
    \/ \E t \in TaskIds : LoopWakeTimeout(t)
    \/ \E d \in Direct : DirectRefresh(d)
    \/ \E c \in Callers : FetchReturn(c)
    \/ \E c \in Callers : FetchRaise(c)
    \/ Tick

SpecClock == Init /\ [][NextClock]_vars

\* C30: the timestamp of the current snapshot never decreases.  With a
\* clock that does not go back, every publication, by the loop or by a
\* refresh_once() call overlapping it, installs a snapshot whose timestamp
\* is at least that of the snapshot it replaces, and is the time of the
\* publication.
C30_TimestampMonotonic ==
    /\ [][snap'.ts >= snap.ts]_vars
    /\ [][snap_obj' # snap_obj => snap'.ts = now]_vars
    /\ [](snap.ts <= now)

\* C30 witness: a run that began before another run's publication has
\* published after it, at a later time.
C30_Witness ==
    /\ snap.sites.cyc = 1
    /\ snap.ts = 2
    /\ \E d \in Direct : dres[d] = "ok" /\ rc[d].pc = "idle"
    /\ \E t \in TaskIds : task[t].res = "ok" /\ task[t].att = 1
    /\ ncycles = 2

====
